---- MODULE Spec2Model ----
(***************************************************************************)
(* AI usage metering and quota enforcement of the family app backend:      *)
(* AIService (_check_token_limit, the OpenAI call, _log_token_usage), the  *)
(* FamilyAiLimit row of each family, the AiTokenUsage ledger, family       *)
(* registration and the administrative limit update.                       *)
(*                                                                         *)
(* Money is kept in micro-dollars (calculate_cost rounds to six fractional *)
(* digits), so 0.20 USD is 200000.  Python None is 0 for family_id, and a  *)
(* missing row is NoRow.  Every uvicorn worker process runs one event      *)
(* loop; an AIService coroutine contains no await, so a worker runs one    *)
(* call from entry to return before it starts another, while calls of      *)
(* different workers interleave at every database statement.               *)
(***************************************************************************)
EXTENDS Integers, Sequences, FiniteSets, TLC

\* ---------------------------------------------------------------- bounds
\* Families that register, worker processes, AIService calls that are started,
\* calendar months, and the largest token count given to calculate_cost
\* directly.
NumFamilies == 1
NumWorkers == 2
MaxCalls == 3
MaxMonths == 2
MaxCount == 4

Families == 1..NumFamilies

\* The id of a family that was stored before the table family_ai_limits
\* existed (only the database of SpecLegacy holds it), and all family ids.
LegacyFamily == NumFamilies + 1
AllFamilies == Families \cup {LegacyFamily}
Workers == 1..NumWorkers

\* ------------------------------------------------------- program constants
None == 0
DEFAULT_TOKEN_LIMIT == 100000
COLUMN_DEFAULT_COST_LIMIT == 200000
FALLBACK_COST_LIMIT == 200000
MICRO == 1000000

\* AppSettings "default_ai_cost_limit_cents" values an operator has stored
\* (auth.py reads the value when a family registers through Google).
CostLimitCents == {0, 15}
\* monthly_token_limit values the operator passes to update_family_ai_limits.
TokenLimitInputs == {2000}

\* response.usage of the metered call; NoUsage is response.usage = None.
NoUsage == [prompt_tokens |-> 0, completion_tokens |-> 0, total_tokens |-> 0, present |-> FALSE]
Usage(p, c) == [prompt_tokens |-> p, completion_tokens |-> c, total_tokens |-> p + c, present |-> TRUE]
Usages == {Usage(1000, 0), Usage(2000, 2000)}

\* ------------------------------------------------------------ price table
\* AI_PRICING, per 1K tokens, in micro-dollars.
AI_PRICING ==
  [m \in {"gpt-4-vision-preview", "gpt-4", "gpt-4-turbo", "gpt-3.5-turbo"} |->
     CASE m = "gpt-4-vision-preview" -> [input |-> 10000, output |-> 30000]
       [] m = "gpt-4"                -> [input |-> 30000, output |-> 60000]
       [] m = "gpt-4-turbo"          -> [input |-> 10000, output |-> 30000]
       [] m = "gpt-3.5-turbo"        -> [input |-> 500,   output |-> 1500]]

\* The (prompt_tokens, completion_tokens) for which the double
\* (prompt_tokens / 1000) * 0.0005 + (completion_tokens / 1000) * 0.0015 lies
\* above the decimal value it stands for, among the counts up to 6 whose
\* decimal value is half a micro-dollar off a whole one.  (The other entries
\* of AI_PRICING give whole micro-dollars for every count.)
DoubleAbove ==
  {<<0, 1>>, <<0, 3>>, <<0, 5>>, <<1, 4>>, <<1, 6>>, <<3, 0>>, <<3, 2>>, <<3, 4>>,
   <<3, 6>>, <<4, 3>>, <<4, 5>>, <<5, 0>>, <<5, 6>>, <<6, 1>>, <<6, 3>>, <<6, 5>>}

\* round(x, 6) of the double x that stands for n/d micro-dollars: the nearest
\* micro-dollar; x is never exactly halfway, and `above` tells on which side
\* of the decimal halfway value it lies.
Round6(n, d, above) ==
  LET q == n \div d
      r == n % d
  IN  IF 2 * r < d THEN q
      ELSE IF 2 * r > d THEN q + 1
      ELSE IF above THEN q + 1 ELSE q

\* calculate_cost as it would be with the two prices taken for one another.
calculate_cost_swapped(model, prompt_tokens, completion_tokens) ==
  LET pricing == IF model \in DOMAIN AI_PRICING THEN AI_PRICING[model] ELSE AI_PRICING["gpt-4"]
  IN  Round6(prompt_tokens * pricing.output + completion_tokens * pricing.input, 1000,
             <<prompt_tokens, completion_tokens>> \in DoubleAbove)

\* calculate_cost as it would be with the cheapest entry as the default.
calculate_cost_cheapest(model, prompt_tokens, completion_tokens) ==
  LET pricing == IF model \in DOMAIN AI_PRICING THEN AI_PRICING[model]
                 ELSE AI_PRICING["gpt-3.5-turbo"]
  IN  Round6(prompt_tokens * pricing.input + completion_tokens * pricing.output, 1000,
             <<prompt_tokens, completion_tokens>> \in DoubleAbove)

\* calculate_cost as it would be with - in place of + in its last line.
calculate_cost_minus(model, prompt_tokens, completion_tokens) ==
  LET pricing == IF model \in DOMAIN AI_PRICING THEN AI_PRICING[model] ELSE AI_PRICING["gpt-4"]
  IN  Round6(prompt_tokens * pricing.input - completion_tokens * pricing.output, 1000,
             <<prompt_tokens, completion_tokens>> \in DoubleAbove)

\* Lines 48-53; the prices are micro-dollars per 1K tokens, so the sum is in
\* thousandths of a micro-dollar.
calculate_cost(model, prompt_tokens, completion_tokens) ==
  LET pricing == IF model \in DOMAIN AI_PRICING THEN AI_PRICING[model] ELSE AI_PRICING["gpt-4"]
  IN  Round6(prompt_tokens * pricing.input + completion_tokens * pricing.output, 1000,
             <<prompt_tokens, completion_tokens>> \in DoubleAbove)

\* Every AIService method sets model = "gpt-4o".
MODEL == "gpt-4o"

\* ------------------------------------------------------------------ state
VARIABLES
  client,          \* AIService.client is set (settings.openai_api_key given)
  families,        \* ids of the rows of table families
  ai_limits,       \* table family_ai_limits: family_id -> row
  ai_token_usage,  \* table ai_token_usage, in insertion order
  run,             \* per worker: the AIService call its event loop is running
  calls,           \* per started call: what it was asked and how it ended
  today,           \* the calendar month the database clock (func.now()) is in
  priced,          \* a direct call of calculate_cost: its arguments and result
  report           \* the response of a reporting endpoint, until it is sent

vars == <<client, families, ai_limits, ai_token_usage, run, calls, today, priced, report>>

NoRow == [present |-> FALSE]

\* FamilyAiLimit(...) as the constructors in auth.py, family.py and admin.py
\* fill it; reset_date is nullable and no code ever sets it.
FamilyAiLimit(token_limit, cost_limit) ==
  [present |-> TRUE,
   monthly_token_limit |-> token_limit,
   current_month_usage |-> 0,
   monthly_cost_limit_usd |-> cost_limit,
   current_month_cost_usd |-> 0,
   reset_date |-> None]

\* QueryLimit as it would be without the filter: the first row of the table.
QueryLimit_unfiltered(limits, f) ==
  IF DOMAIN limits = {} THEN NoRow
  ELSE limits[CHOOSE g \in DOMAIN limits : \A h \in DOMAIN limits : g <= h]

\* db.query(FamilyAiLimit).filter(family_id == f).first()
QueryLimit(limits, f) == IF f \in DOMAIN limits THEN limits[f] ELSE NoRow

\* What _log_token_usage uses of the row it read: the two counters it adds to
\* (the UPDATE of its commit writes these two columns only).
Counters(row) ==
  IF row.present
    THEN [present |-> TRUE, current_month_usage |-> row.current_month_usage,
          current_month_cost_usd |-> row.current_month_cost_usd]
    ELSE NoRow

IdleRun ==
  [pc |-> "idle", id |-> 0, db |-> FALSE, family_id |-> None,
   checked |-> FALSE, current_cost |-> 0, cost_limit |-> 0,
   usage |-> NoUsage, cost |-> 0, ai_limit |-> NoRow,
   before |-> NoRow, rows_before |-> 0, month |-> 0]

\* No direct call of calculate_cost is under way.
NotPriced ==
  [model |-> MODEL, prompt_tokens |-> 0, completion_tokens |-> 0, cost |-> 0, done |-> FALSE]

\* No reporting endpoint has a response under way.
NoReport == [endpoint |-> "none"]

\* The tables as Base.metadata.create_all leaves them and the service as
\* AIService.__init__ leaves it.
NoData ==
  /\ families = {}
  /\ ai_limits = <<>>
  /\ ai_token_usage = <<>>
  /\ run = [w \in Workers |-> IdleRun]
  /\ calls = <<>>
  /\ today = 1
  /\ report = NoReport

Init ==
  /\ client \in BOOLEAN
  /\ NoData
  /\ priced = NotPriced

\* ------------------------------------------------------------ registration
\* The id the new row of table families gets: the next one not yet given.
NewFamilyId ==
  IF Families \subseteq families THEN None
  ELSE CHOOSE f \in Families \ families : \A g \in Families \ families : f <= g

\* family.py register_family: the row takes the column defaults for the cost.
register_family ==
  /\ NewFamilyId \in Families
  /\ families' = families \cup {NewFamilyId}
  /\ ai_limits' = ai_limits @@ (NewFamilyId :> FamilyAiLimit(DEFAULT_TOKEN_LIMIT, COLUMN_DEFAULT_COST_LIMIT))
  /\ UNCHANGED <<today, priced, report, client, ai_token_usage, run, calls>>

\* auth.py login_with_google, new user: cost limit int(value) / 100 of the
\* stored setting.
login_with_google(cents) ==
  /\ NewFamilyId \in Families
  /\ families' = families \cup {NewFamilyId}
  /\ ai_limits' = ai_limits @@ (NewFamilyId :> FamilyAiLimit(DEFAULT_TOKEN_LIMIT, (cents * MICRO) \div 100))
  /\ UNCHANGED <<today, priced, report, client, ai_token_usage, run, calls>>

\* ------------------------------------------------------------- AIService
\* Python `x or d` on a number: d when x is 0 (or None).
OrDefault(x, d) == IF x = 0 THEN d ELSE x

\* The comparison of line 34.
LimitExceeded(current_cost, cost_limit) == current_cost >= cost_limit

NotChecked == [checked |-> FALSE, raised |-> FALSE, current_cost |-> 0, cost_limit |-> 0]

\* _check_token_limit: what it compared and whether it raised
\* TokenLimitExceededError.  It returns at once without a db session, without
\* a family id, and when the family has no row.
_check_token_limit(limits, db, family_id) ==
  IF ~db \/ family_id = None THEN NotChecked
  ELSE LET ai_limit == QueryLimit(limits, family_id)
       IN  IF ~ai_limit.present THEN NotChecked
           ELSE LET current_cost == OrDefault(ai_limit.current_month_cost_usd, 0)
                    cost_limit == OrDefault(ai_limit.monthly_cost_limit_usd, FALLBACK_COST_LIMIT)
                IN  [checked |-> TRUE,
                     raised |-> LimitExceeded(current_cost, cost_limit),
                     current_cost |-> current_cost,
                     cost_limit |-> cost_limit]

\* calls[id] is how call id ended ("running" while it is in flight):
\*   "no_client"     _ensure_client raised ValueError
\*   "denied"        _check_token_limit raised TokenLimitExceededError
\*   "failed"        chat.completions.create raised
\*   "commit_error"  db.commit() in _log_token_usage raised
\*   "returned"      the method returned its result
Finish(w, result) ==
  /\ calls' = [calls EXCEPT ![run[w].id] = result]
  /\ run' = [run EXCEPT ![w] = IdleRun]

\* _ensure_client raises ValueError (lines 79-81): nothing was checked or called.
NoClient(w) ==
  /\ calls' = Append(calls, "no_client")
  /\ UNCHANGED <<run, ai_limits, ai_token_usage>>

\* Deny as it would be if the denied attempt were written to the usage table.
Deny_logged(w) ==
  /\ calls' = Append(calls, "denied")
  /\ ai_token_usage' = Append(ai_token_usage,
                              [family_id |-> None, total_tokens |-> 0, cost_usd |-> 0,
                               created_at |-> today])
  /\ UNCHANGED <<run, ai_limits>>

\* raise TokenLimitExceededError (lines 35-37) out of the entered method: the
\* worker's event loop runs no call, no table is written.
Deny(w) ==
  /\ calls' = Append(calls, "denied")
  /\ UNCHANGED <<run, ai_limits, ai_token_usage>>

\* The method goes on to the metered call (line 95 onwards) with what the check
\* saw; a check does not write.  before, rows_before and month remember the
\* family's counters, the number of usage rows and the calendar month at this
\* moment (history only: no step reads them).
Admit(w, db, family_id, chk) ==
  /\ calls' = Append(calls, "running")
  /\ run' = [run EXCEPT ![w] =
               [IdleRun EXCEPT !.pc = "create", !.id = Len(calls) + 1, !.db = db,
                               !.family_id = family_id, !.checked = chk.checked,
                               !.current_cost = chk.current_cost,
                               !.cost_limit = chk.cost_limit,
                               !.before = Counters(QueryLimit(ai_limits, family_id)),
                               !.rows_before = Len(ai_token_usage),
                               !.month = today]]
  /\ UNCHANGED <<ai_limits, ai_token_usage>>

\* An AIService method is entered with (db, family_id): _ensure_client, then
\* _check_token_limit (lines 92-93 and the same two lines of every method).
Enter(w, db, family_id) ==
  /\ run[w].pc = "idle"
  /\ Len(calls) < MaxCalls
  /\ family_id \in families \cup {None}
  /\ LET chk == _check_token_limit(ai_limits, db, family_id)
     IN  IF ~client THEN NoClient(w)
         ELSE IF chk.raised THEN Deny(w)
         ELSE Admit(w, db, family_id, chk)
  /\ UNCHANGED <<today, priced, report, client, families>>

\* The endpoints of routers/learning.py and routers/quran_goals.py: each calls
\* its AIService method without db, family_id and user_id.  (Without db a
\* method does the same whatever family_id it is given: neither the check nor
\* the logging reads it.)
RouterCall(w) == Enter(w, FALSE, None)

\* An AIService method called with a db session, with or without a family id.
ServiceCall(w, family_id) == Enter(w, TRUE, family_id)

\* self.client.chat.completions.create(...) returns a response.
Create(w, usage) ==
  /\ run[w].pc = "create"
  /\ run' = [run EXCEPT ![w].pc = "log", ![w].usage = usage]
  /\ UNCHANGED <<today, priced, report, client, families, ai_limits, ai_token_usage, calls>>

\* CreateRaises as it would be if the usage were logged in a finally clause.
CreateRaises_logged(w) ==
  /\ run[w].pc = "create"
  /\ calls' = [calls EXCEPT ![run[w].id] = "failed"]
  /\ run' = [run EXCEPT ![w] = IdleRun]
  /\ ai_token_usage' = Append(ai_token_usage,
                              [family_id |-> run[w].family_id, total_tokens |-> 0, cost_usd |-> 0,
                               created_at |-> today])
  /\ UNCHANGED <<today, priced, report, client, families, ai_limits>>

\* self.client.chat.completions.create(...) raises: the exception leaves the
\* method, _log_token_usage is not reached.
CreateRaises(w) ==
  /\ run[w].pc = "create"
  /\ Finish(w, "failed")
  /\ UNCHANGED <<today, priced, report, client, families, ai_limits, ai_token_usage>>

\* AddCost as it would be with = in place of +.
AddCost_overwrite(current, cost) == cost

\* Line 75: current_month_cost_usd = (current_month_cost_usd or 0.0) + cost
AddCost(current, cost) == OrDefault(current, 0) + cost

\* Lines 56-65: the AiTokenUsage row of a call (its id is its position in the
\* table); created_at is the server default func.now() of the INSERT.
AiTokenUsage(family_id, usage, cost) ==
  [family_id |-> family_id, total_tokens |-> usage.total_tokens, cost_usd |-> cost,
   created_at |-> today]

\* Committed as it would be if the INSERT were committed on its own, before
\* the counters are assigned.
Committed_row_only(limits, table, ai_limit, family_id, usage, cost) ==
  [ai_limits |-> limits,
   ai_token_usage |-> Append(table, [family_id |-> family_id, total_tokens |-> usage.total_tokens,
                                     cost_usd |-> cost, created_at |-> today])]

\* Committed as it would be if a missing row were created, as the
\* administrative update does.
Committed_creating(limits, table, ai_limit, family_id, usage, cost) ==
  [ai_limits |->
     IF family_id \in DOMAIN limits
       THEN [limits EXCEPT ![family_id].current_month_usage = @ + usage.total_tokens,
                           ![family_id].current_month_cost_usd = @ + cost]
       ELSE limits @@ (family_id :> [present |-> TRUE,
                                     monthly_token_limit |-> DEFAULT_TOKEN_LIMIT,
                                     current_month_usage |-> usage.total_tokens,
                                     monthly_cost_limit_usd |-> COLUMN_DEFAULT_COST_LIMIT,
                                     current_month_cost_usd |-> cost,
                                     reset_date |-> None]),
   ai_token_usage |-> Append(table, [family_id |-> family_id, total_tokens |-> usage.total_tokens,
                                     cost_usd |-> cost, created_at |-> today])]

\* Lines 73-77: what db.commit() makes durable, given the row `ai_limit` the
\* session read at line 70: the INSERT of the usage row and the UPDATE that
\* sets the two counters to the values computed from that read.
Committed(limits, table, ai_limit, family_id, usage, cost) ==
  [ai_limits |->
     IF family_id # None /\ ai_limit.present
       THEN [limits EXCEPT ![family_id].current_month_usage =
                              ai_limit.current_month_usage + usage.total_tokens,
                           ![family_id].current_month_cost_usd =
                              AddCost(ai_limit.current_month_cost_usd, cost)]
       ELSE limits,
   ai_token_usage |-> Append(table, AiTokenUsage(family_id, usage, cost))]

\* Line 53, for the response the call holds.
CostOf(usage) == calculate_cost(MODEL, usage.prompt_tokens, usage.completion_tokens)

\* _log_token_usage lines 49-72: return without db or usage (the method then
\* returns its result); else compute the cost, add the usage row to the
\* session and read the family's row.
LogRead(w) ==
  /\ run[w].pc = "log"
  /\ IF ~run[w].db \/ ~run[w].usage.present
       THEN Finish(w, "returned")
       ELSE /\ run' = [run EXCEPT
                 ![w].pc = "commit",
                 ![w].cost = CostOf(run[w].usage),
                 ![w].ai_limit = IF run[w].family_id # None
                                   THEN Counters(QueryLimit(ai_limits, run[w].family_id))
                                   ELSE NoRow]
            /\ UNCHANGED calls
  /\ UNCHANGED <<today, priced, report, client, families, ai_limits, ai_token_usage>>

\* _log_token_usage lines 73-77, the commit succeeds; the method then parses
\* the content and returns.  family_id is NOT NULL in ai_token_usage, so a
\* row without it cannot be committed.
LogCommit(w) ==
  /\ run[w].pc = "commit"
  /\ run[w].family_id # None
  /\ LET c == Committed(ai_limits, ai_token_usage, run[w].ai_limit, run[w].family_id,
                        run[w].usage, run[w].cost)
     IN  /\ ai_limits' = c.ai_limits
         /\ ai_token_usage' = c.ai_token_usage
  /\ Finish(w, "returned")
  /\ UNCHANGED <<today, priced, report, client, families>>

\* db.commit() raises (IntegrityError for family_id NULL, or the database
\* fails): nothing of the session is durable, the exception leaves the method.
CommitRaises(w) ==
  /\ run[w].pc = "commit"
  /\ Finish(w, "commit_error")
  /\ UNCHANGED <<today, priced, report, client, families, ai_limits, ai_token_usage>>

\* _log_token_usage as one uninterrupted execution on tables (limits, table);
\* without a family id its commit raises and nothing is durable.
_log_token_usage(limits, table, db, family_id, usage) ==
  IF ~db \/ ~usage.present \/ family_id = None
    THEN [ai_limits |-> limits, ai_token_usage |-> table]
    ELSE Committed(limits, table,
                   Counters(QueryLimit(limits, family_id)), family_id, usage, CostOf(usage))

\* -------------------------------------------------------------- endpoints
\* The endpoints that await an AIService method.
Endpoints ==
  {"upload_homework", "generate_worksheet", "grade_worksheet", "extract_tasks_from_image",
   "get_parent_suggestions", "submit_worksheet", "log_reading", "log_reading_from_image"}

\* What an endpoint answers when its AIService call ended with `result`:
\* the HTTP status, whether the body reports an error, and whether the body
\* carries the text of TokenLimitExceededError.  No exception handler is
\* registered in main.py, so an exception that leaves an endpoint is answered
\* by the framework with 500 "Internal Server Error".
\*   upload_homework   except ValueError / except Exception: HTTPException(500)
\*                     with str(e) in the detail
\*   submit_worksheet  except Exception: returns "grading pending" and str(e)
\*   log_reading       bare except: pass, goes on with the manual input
\*   the others        no try around the call
endpoint_response(endpoint, result) ==
  IF result = "returned" THEN [status |-> 200, error |-> FALSE, limit_text |-> FALSE]
  ELSE CASE endpoint = "upload_homework" ->
              [status |-> 500, error |-> TRUE, limit_text |-> result = "denied"]
         [] endpoint = "submit_worksheet" ->
              [status |-> 200, error |-> TRUE, limit_text |-> result = "denied"]
         [] endpoint = "log_reading" ->
              [status |-> 200, error |-> FALSE, limit_text |-> FALSE]
         [] OTHER ->
              [status |-> 500, error |-> TRUE, limit_text |-> FALSE]

\* ----------------------------------------------------------- administration
\* update_family_ai_limits as it would be if it also started the count anew,
\* as its branch for a missing row does.
update_family_ai_limits_reset(family_id, monthly_token_limit) ==
  /\ family_id \in families
  /\ ai_limits' =
       IF family_id \in DOMAIN ai_limits
         THEN [ai_limits EXCEPT ![family_id].monthly_token_limit = monthly_token_limit,
                                ![family_id].current_month_usage = 0]
         ELSE ai_limits @@ (family_id :> FamilyAiLimit(monthly_token_limit, COLUMN_DEFAULT_COST_LIMIT))
  /\ ai_limits' # ai_limits
  /\ UNCHANGED <<today, priced, report, client, families, ai_token_usage, run, calls>>

\* update_family_ai_limits as it would be if it also cleared the family's
\* usage rows.
update_family_ai_limits_purge(family_id, monthly_token_limit) ==
  /\ family_id \in families
  /\ ai_limits' =
       IF family_id \in DOMAIN ai_limits
         THEN [ai_limits EXCEPT ![family_id].monthly_token_limit = monthly_token_limit]
         ELSE ai_limits @@ (family_id :> FamilyAiLimit(monthly_token_limit, COLUMN_DEFAULT_COST_LIMIT))
  /\ ai_token_usage' = SelectSeq(ai_token_usage, LAMBDA r : r.family_id # family_id)
  /\ UNCHANGED <<today, priced, report, client, families, run, calls>>

\* admin.py update_family_ai_limits: sets monthly_token_limit of the row, or
\* creates the row (404 for an unknown family).
update_family_ai_limits(family_id, monthly_token_limit) ==
  /\ family_id \in families
  /\ ai_limits' =
       IF family_id \in DOMAIN ai_limits
         THEN [ai_limits EXCEPT ![family_id].monthly_token_limit = monthly_token_limit]
         ELSE ai_limits @@ (family_id :> FamilyAiLimit(monthly_token_limit, COLUMN_DEFAULT_COST_LIMIT))
  /\ ai_limits' # ai_limits
  /\ UNCHANGED <<today, priced, report, client, families, ai_token_usage, run, calls>>

\* admin.py get_family_details, the "ai_limit" entry of its result (None
\* without a row).
get_family_details(limits, family_id) ==
  LET ai_limit == QueryLimit(limits, family_id)
  IN  IF ai_limit.present
        THEN [present |-> TRUE,
              monthly_limit |-> ai_limit.monthly_token_limit,
              current_usage |-> ai_limit.current_month_usage,
              reset_date |-> ai_limit.reset_date]
        ELSE NoRow

\* -------------------------------------------------------------- reporting
\* Python round(x, digits) of an amount in micro-dollars, `unit` being the
\* micro-dollars of the last digit kept: to the nearer multiple of unit, an
\* exact half to the even one.  (No sum of costs that the calls of this model
\* record is an exact half.)
RoundTo(x, unit) ==
  LET q == x \div unit
      r == x % unit
  IN  IF 2 * r < unit THEN q * unit
      ELSE IF 2 * r > unit THEN (q + 1) * unit
      ELSE (IF q % 2 = 0 THEN q ELSE q + 1) * unit

RECURSIVE func_sum(_, _)
\* func.sum(column) over the rows a query selects.
func_sum(rows, column) ==
  IF rows = <<>> THEN 0 ELSE Head(rows)[column] + func_sum(Tail(rows), column)

\* TokenUsageSummary as it would be if the sums were taken over the whole
\* table, as get_dashboard_stats takes them.
TokenUsageSummary_unfiltered(limits, table, family_id) ==
  [endpoint |-> "get_family_usage",
   family_id |-> family_id,
   total_tokens |-> func_sum(table, "total_tokens"),
   total_cost |-> RoundTo(func_sum(table, "cost_usd"), 100),
   monthly_limit |-> DEFAULT_TOKEN_LIMIT]

\* admin.py get_family_usage, what it returns for a family that exists: the
\* sums over the family's usage rows (of all months), the cost rounded to four
\* digits, and the token limit (100000 without a row).
TokenUsageSummary(limits, table, family_id) ==
  LET ai_limit == QueryLimit(limits, family_id)
      total_usage == SelectSeq(table, LAMBDA u : u.family_id = family_id)
  IN  [endpoint |-> "get_family_usage",
       family_id |-> family_id,
       total_tokens |-> OrDefault(func_sum(total_usage, "total_tokens"), 0),
       total_cost |-> RoundTo(OrDefault(func_sum(total_usage, "cost_usd"), 0), 100),
       monthly_limit |-> IF ai_limit.present THEN ai_limit.monthly_token_limit
                         ELSE DEFAULT_TOKEN_LIMIT]

\* admin.py get_family_usage (404 for an unknown family): reads only.
get_family_usage(family_id) ==
  /\ report = NoReport
  /\ family_id \in families
  /\ report' = TokenUsageSummary(ai_limits, ai_token_usage, family_id)
  /\ UNCHANGED <<today, priced, client, families, ai_limits, ai_token_usage, run, calls>>

\* admin.py get_dashboard_stats: the sums over all usage rows, the cost
\* rounded to two digits.
get_dashboard_stats ==
  /\ report = NoReport
  /\ report' = [endpoint |-> "get_dashboard_stats",
                total_families |-> Cardinality(families),
                total_ai_tokens_used |-> OrDefault(func_sum(ai_token_usage, "total_tokens"), 0),
                total_ai_cost |-> RoundTo(OrDefault(func_sum(ai_token_usage, "cost_usd"), 0), 10000)]
  /\ UNCHANGED <<today, priced, client, families, ai_limits, ai_token_usage, run, calls>>

\* family.py get_my_family of a user of family family_id: the "ai_limit"
\* entry (None without a row) and total_token_usage.
get_my_family(family_id) ==
  /\ report = NoReport
  /\ family_id \in families
  /\ LET ai_limit == QueryLimit(ai_limits, family_id)
     IN  report' = [endpoint |-> "get_my_family",
                    family_id |-> family_id,
                    ai_limit |-> IF ai_limit.present
                                   THEN [present |-> TRUE,
                                         monthly_token_limit |-> ai_limit.monthly_token_limit,
                                         current_month_usage |-> ai_limit.current_month_usage,
                                         reset_date |-> ai_limit.reset_date]
                                   ELSE NoRow,
                    total_token_usage |-> IF ai_limit.present
                                            THEN ai_limit.current_month_usage ELSE 0]
  /\ UNCHANGED <<today, priced, client, families, ai_limits, ai_token_usage, run, calls>>

\* The response is sent.
SendReport ==
  /\ report # NoReport
  /\ report' = NoReport
  /\ UNCHANGED <<today, priced, client, families, ai_limits, ai_token_usage, run, calls>>

\* A response with a small usage, next to those of Usages.
SmallUsages == {Usage(1, 0)}

\* -------------------------------------------------------------- the clock
\* A calendar month ends.  No code runs when it does: nothing reads
\* reset_date, and nothing but _log_token_usage writes the two counters.
NextMonth ==
  /\ today < MaxMonths
  /\ today' = today + 1
  /\ UNCHANGED <<priced, report, client, families, ai_limits, ai_token_usage, run, calls>>

\* ------------------------------------------------- calculate_cost, directly
\* The model identifiers calculate_cost is given: the keys of AI_PRICING, the
\* model of AIService, and "gpt-4-vision" (named in the comment of model_used).
Models == DOMAIN AI_PRICING \cup {MODEL, "gpt-4-vision"}

\* calculate_cost(model, prompt_tokens, completion_tokens) is called and
\* returns.
Price ==
  /\ ~priced.done
  /\ priced' = [priced EXCEPT
                  !.cost = calculate_cost(priced.model, priced.prompt_tokens,
                                          priced.completion_tokens),
                  !.done = TRUE]
  /\ UNCHANGED <<today, report, client, families, ai_limits, ai_token_usage, run, calls>>

\* ---------------------------------------------------------- specifications
\* The steps that the event loops of the worker processes W can take, and
\* those of the registration and administration endpoints.
Step(W) ==
  \/ register_family
  \/ \E cents \in CostLimitCents : login_with_google(cents)
  \/ \E f \in AllFamilies, l \in TokenLimitInputs : update_family_ai_limits(f, l)
  \/ \E w \in W : RouterCall(w)
  \/ \E w \in W, f \in AllFamilies \cup {None} : ServiceCall(w, f)
  \/ \E w \in W, u \in Usages \cup {NoUsage} : Create(w, u)
  \/ \E w \in W : CreateRaises(w)
  \/ \E w \in W : LogRead(w)
  \/ \E w \in W : LogCommit(w)
  \/ \E w \in W : CommitRaises(w)

\* Several worker processes on one database.
Next == Step(Workers)

Spec == Init /\ [][Next]_vars

\* NextSerial as it would be if the calls of one process could overlap.
NextSerial_overlapping == Step(Workers)

\* One process, as main.py starts it (uvicorn.run(app), a single event loop).
NextSerial == Step({1})

SpecSerial == Init /\ [][NextSerial]_vars

\* A database that held a family before the table family_ai_limits existed:
\* Base.metadata.create_all adds the missing table and no row, so that family
\* has no FamilyAiLimit row (the case every `if ai_limit` of the code is for).
InitLegacy ==
  /\ client \in BOOLEAN
  /\ families = {LegacyFamily}
  /\ ai_limits = <<>>
  /\ ai_token_usage = <<>>
  /\ run = [w \in Workers |-> IdleRun]
  /\ calls = <<>>
  /\ today = 1
  /\ priced = NotPriced
  /\ report = NoReport

\* One process on such a database.
SpecLegacy == InitLegacy /\ [][NextSerial]_vars

\* The reporting endpoints on the database of SpecLegacy, in which one
\* process records calls; a report is sent before the next request is served.
NextReports ==
  \/ \E f \in AllFamilies : get_family_usage(f)
  \/ get_dashboard_stats
  \/ \E f \in AllFamilies : get_my_family(f)
  \/ SendReport
  \/ /\ report = NoReport
     /\ \/ register_family
        \/ \E f \in AllFamilies, l \in TokenLimitInputs : update_family_ai_limits(f, l)
        \/ \E f \in AllFamilies : ServiceCall(1, f)
        \/ \E u \in Usages \cup SmallUsages : Create(1, u)
        \/ LogRead(1)
        \/ LogCommit(1)

SpecReports == InitLegacy /\ [][NextReports]_vars

\* One process over several calendar months.
NextMonths == NextSerial \/ NextMonth

SpecMonths == Init /\ [][NextMonths]_vars

\* A direct call of calculate_cost with arguments from bounded sets.
InitCost ==
  /\ client \in BOOLEAN
  /\ NoData
  /\ priced \in [model : Models, prompt_tokens : 0..MaxCount, completion_tokens : 0..MaxCount,
                  cost : {0}, done : {FALSE}]

SpecCost == InitCost /\ [][Price]_vars

\* ------------------------------------------------------------------ claims
InFlight(w) == run[w].pc \in {"create", "log", "commit"}

RECURSIVE SumCost(_, _)
\* The sum of cost_usd over the usage rows of family f in `table`.
SumCost(table, f) ==
  IF table = <<>> THEN 0
  ELSE (IF Head(table).family_id = f THEN Head(table).cost_usd ELSE 0) + SumCost(Tail(table), f)

\* The number of usage rows of family f.
RowsOf(f) == Cardinality({i \in 1..Len(ai_token_usage) : ai_token_usage[i].family_id = f})

\* The largest cost one call can have.
MaxCallCost == CHOOSE c \in {CostOf(u) : u \in Usages} : \A u \in Usages : CostOf(u) <= c

\* C1: no double-grant.  For a family whose cost limit is 0.15 and whose
\* accrued cost is 0.00, of the callers that ask concurrently at most one is
\* admitted: never are two calls of the family in flight that both passed the
\* check against cost 0.
C1_NoDoubleGrant ==
  \A f \in DOMAIN ai_limits :
    ai_limits[f].monthly_cost_limit_usd = 150000 =>
      Cardinality({w \in Workers : /\ InFlight(w)
                                   /\ run[w].checked
                                   /\ run[w].family_id = f
                                   /\ run[w].current_cost = 0}) <= 1

\* C2: bounded overshoot.  In every state, for every family, the cost recorded
\* for it (its counter current_month_cost_usd, and the sum of its usage rows)
\* is at most its monthly cost limit plus the largest cost of one call times
\* the number of calls that can be in flight at once.
C2_BoundedOvershoot ==
  \A f \in DOMAIN ai_limits :
    LET cap == ai_limits[f].monthly_cost_limit_usd + MaxCallCost * NumWorkers
    IN  /\ ai_limits[f].current_month_cost_usd <= cap
        /\ SumCost(ai_token_usage, f) <= cap

\* C3: admission rule.  A call is admitted only if the accrued cost the check
\* saw plus the cost of the call is within the limit (the cost the call turns
\* out to have is at most its worst-case estimate); with limit 0.20 and accrued
\* cost 0.03 a call of 0.18 is not admitted.
C3_AdmissionRule ==
  \A w \in Workers :
    (run[w].pc = "log" /\ run[w].checked /\ run[w].usage.present) =>
       run[w].current_cost + CostOf(run[w].usage) <= run[w].cost_limit

\* C4: the quota check is never skipped.  Every call that reaches the metered
\* capability has had its family's accrued cost compared with the family's
\* limit.
C4_CheckNeverSkipped ==
  \A w \in Workers : InFlight(w) => run[w].checked

\* C5: exactly-once accounting.  When a call whose metered call returned a
\* response ends, exactly one usage row carrying its family and its cost has
\* been written and the cost has been added to the family's counter once.
C5_ExactlyOnce ==
  [][\A w \in Workers :
       (run[w].pc \in {"log", "commit"} /\ run'[w].pc = "idle") =>
          /\ ai_token_usage' = Append(ai_token_usage,
                                      AiTokenUsage(run[w].family_id, run[w].usage, CostOf(run[w].usage)))
          /\ run[w].family_id \in DOMAIN ai_limits
          /\ ai_limits'[run[w].family_id].current_month_cost_usd =
               ai_limits[run[w].family_id].current_month_cost_usd + CostOf(run[w].usage)]_vars

\* Worker w records its call for family f in this step.
Records(w, f) ==
  /\ run[w].pc = "commit"
  /\ run[w].family_id = f
  /\ calls'[run[w].id] = "returned"

C7_Reconciliation ==
  \A f \in DOMAIN ai_limits :
    (\A w \in Workers : InFlight(w) => run[w].family_id # f) =>
       SumCost(ai_token_usage, f) = ai_limits[f].current_month_cost_usd

\* C8: a denial leaves the state unchanged.  The step that denies a call
\* writes no table (counters, limits, reset_date, usage rows) and starts no
\* call on any event loop, so the metered capability is not invoked for it.
C8_DenialNoMutation ==
  [][(Len(calls') = Len(calls) + 1 /\ calls'[Len(calls')] = "denied") =>
        /\ ai_limits' = ai_limits
        /\ ai_token_usage' = ai_token_usage
        /\ run' = run]_vars

\* A call has been denied for a family that has usage rows and a counter at or
\* over its limit.
C8_Witness ==
  /\ \E i \in 1..Len(calls) : calls[i] = "denied"
  /\ \E f \in DOMAIN ai_limits :
       /\ RowsOf(f) > 0
       /\ ai_limits[f].current_month_cost_usd >= ai_limits[f].monthly_cost_limit_usd
       /\ ai_limits[f].monthly_cost_limit_usd > 0

\* C9: refund on failure.  When the metered call of an admitted call raises,
\* the family's current_month_cost_usd and current_month_usage are exactly
\* what they were before the admission, and no usage row has been written
\* since the admission.
C9_RefundOnFailure ==
  [][\A w \in Workers :
       (run[w].pc = "create" /\ calls'[run[w].id] = "failed") =>
          /\ Len(ai_token_usage') = run[w].rows_before
          /\ Counters(QueryLimit(ai_limits', run[w].family_id)) = run[w].before]_vars

\* One call has recorded 0.03 for a family and the metered call of the next
\* admitted call has failed: the family still has that one row and 0.03.
C9_Witness ==
  /\ calls = <<"returned", "failed">>
  /\ \E f \in DOMAIN ai_limits :
       /\ RowsOf(f) = 1
       /\ ai_limits[f].current_month_cost_usd = CostOf(Usage(1000, 0))

\* C10: idempotent settlement.  Running _log_token_usage twice for the
\* response a call holds leaves the counters and the usage table as running it
\* once does.
C10_IdempotentSettlement ==
  \A w \in Workers :
    run[w].pc = "log" =>
      LET once == _log_token_usage(ai_limits, ai_token_usage, run[w].db,
                                   run[w].family_id, run[w].usage)
          twice == _log_token_usage(once.ai_limits, once.ai_token_usage, run[w].db,
                                    run[w].family_id, run[w].usage)
      IN  twice = once

RECURSIVE SumCostIn(_, _, _)
\* The sum of cost_usd over the usage rows of family f created in `month`.
SumCostIn(table, f, month) ==
  IF table = <<>> THEN 0
  ELSE (IF Head(table).family_id = f /\ Head(table).created_at = month
          THEN Head(table).cost_usd ELSE 0) + SumCostIn(Tail(table), f, month)

\* C11: rollover.  The check of a call is never evaluated against counters of
\* an earlier period: the accrued cost the check of an admitted call saw is at
\* most what has been recorded for the family in the calendar month of the
\* check (a request in a month after the one the cost accrued in sees 0).
C11_Rollover ==
  \A w \in Workers :
    (InFlight(w) /\ run[w].checked) =>
       run[w].current_cost <= SumCostIn(ai_token_usage, run[w].family_id, run[w].month)

\* C12: a denial is recoverable.  A family with a positive cost limit is
\* admitted again once the next period has begun: in a calendar month in which
\* nothing has been recorded for the family yet, its check does not raise.
C12_DenialRecoverable ==
  \A f \in DOMAIN ai_limits :
    (ai_limits[f].monthly_cost_limit_usd > 0 /\ SumCostIn(ai_token_usage, f, today) = 0) =>
       ~_check_token_limit(ai_limits, TRUE, f).raised

\* C13: zero or negative ceiling.  No call is admitted for a family whose
\* monthly_cost_limit_usd is 0 or negative, whatever its accrued cost is.
C13_ZeroCeiling ==
  \A w \in Workers :
    (InFlight(w) /\ run[w].checked) =>
       ai_limits[run[w].family_id].monthly_cost_limit_usd > 0

\* The largest token count one call can have.
MaxCallTokens ==
  CHOOSE t \in {u.total_tokens : u \in Usages} : \A u \in Usages : u.total_tokens <= t

\* Worker w's call for family f passes the check in this step.
Admitted(w, f) ==
  /\ run[w].pc = "idle"
  /\ run'[w].pc = "create"
  /\ run'[w].checked
  /\ run'[w].family_id = f

\* C14: token ceiling.  A family whose current_month_usage has reached its
\* monthly_token_limit is not admitted, and when a call of the family is
\* recorded its current_month_usage is at most monthly_token_limit plus the
\* largest token count of one call.
C14_TokenCeiling ==
  [][\A f \in DOMAIN ai_limits, w \in Workers :
       /\ Admitted(w, f) => ai_limits[f].current_month_usage < ai_limits[f].monthly_token_limit
       /\ Records(w, f) =>
            ai_limits'[f].current_month_usage <= ai_limits'[f].monthly_token_limit + MaxCallTokens]_vars

\* C15: no lost update.  Whenever a call of a family is recorded, in any
\* interleaving with other calls of the family, the family's
\* current_month_usage and current_month_cost_usd become what they were in
\* the database plus the call's tokens and cost.
C15_NoLostUpdate ==
  [][\A f \in DOMAIN ai_limits, w \in Workers :
       Records(w, f) =>
         /\ ai_limits'[f].current_month_usage =
              ai_limits[f].current_month_usage + run[w].usage.total_tokens
         /\ ai_limits'[f].current_month_cost_usd =
              ai_limits[f].current_month_cost_usd + run[w].cost]_vars

\* The limit fields of a row, and the rest of it.
LimitFields(row) == <<row.monthly_token_limit, row.monthly_cost_limit_usd>>
OtherFields(row) == <<row.current_month_usage, row.current_month_cost_usd, row.reset_date>>

\* C16: limit changes and metering.  A step that changes a limit field of a
\* family (update_family_ai_limits, wherever it falls between the checks, row
\* reads and commits of the family's calls) changes no counter and no usage
\* row, and a step that records a call changes no limit field, so no commit
\* takes a limit update back.
C16_LimitUpdateAtomic ==
  [][\A f \in DOMAIN ai_limits :
       /\ LimitFields(ai_limits'[f]) # LimitFields(ai_limits[f]) =>
            /\ OtherFields(ai_limits'[f]) = OtherFields(ai_limits[f])
            /\ ai_token_usage' = ai_token_usage
       /\ (\E w \in Workers : Records(w, f)) =>
            LimitFields(ai_limits'[f]) = LimitFields(ai_limits[f])]_vars

\* The operator has changed the token limit of a family that has recorded
\* usage while a call of the family is between its row read and its commit.
C16_Witness ==
  \E f \in DOMAIN ai_limits, w \in Workers :
    /\ ai_limits[f].monthly_token_limit \in TokenLimitInputs
    /\ ai_limits[f].current_month_usage > 0
    /\ run[w].pc = "commit"
    /\ run[w].family_id = f

\* The cost limits an operator asks for (0.50).
CostLimitInputs == {500000}

\* C17: set/get round trip.  After the operator has set the limits of a family
\* to (token_limit, cost_limit) through the administrative limit update, the
\* row holds both values, get_family_details returns the token limit, and the
\* next check compares with the new cost limit.
C17_SetGetRoundTrip ==
  [][\A f \in Families, token_limit \in TokenLimitInputs, cost_limit \in CostLimitInputs :
       update_family_ai_limits(f, token_limit) =>
          /\ ai_limits'[f].monthly_token_limit = token_limit
          /\ ai_limits'[f].monthly_cost_limit_usd = cost_limit
          /\ get_family_details(ai_limits', f).monthly_limit = token_limit
          /\ _check_token_limit(ai_limits', TRUE, f).cost_limit = cost_limit]_vars

\* |x|
Abs(x) == IF x < 0 THEN -x ELSE x

C19_DefaultFallback ==
  (priced.done /\ priced.model \notin DOMAIN AI_PRICING) =>
     priced.cost = calculate_cost("gpt-4", priced.prompt_tokens, priced.completion_tokens)

\* calculate_cost("gpt-4o", 1, 1) has returned 0.00009.
C19_Witness ==
  priced = [model |-> "gpt-4o", prompt_tokens |-> 1, completion_tokens |-> 1,
            cost |-> 90, done |-> TRUE]

\* C20: cost monotonicity.  The result of calculate_cost is not negative and
\* is at least the result for the same model and any counts that are not
\* larger, after the rounding.
C20_CostMonotone ==
  priced.done =>
     /\ priced.cost >= 0
     /\ \A a \in 0..priced.prompt_tokens, b \in 0..priced.completion_tokens :
          calculate_cost(priced.model, a, b) <= priced.cost

\* calculate_cost("gpt-3.5-turbo", 4, 3) has returned 0.000007 (the sum is
\* 0.0000065; for (4, 2) it is 0.000005 and for (3, 3) 0.000006).
C20_Witness ==
  priced = [model |-> "gpt-3.5-turbo", prompt_tokens |-> 4, completion_tokens |-> 3,
            cost |-> 7, done |-> TRUE]

C23_ResolvedOnce ==
  [][\A w \in Workers :
       (InFlight(w) /\ run[w].checked /\ run'[w].pc = "idle") =>
         LET f == run[w].family_id
             settled == /\ Len(ai_token_usage') = Len(ai_token_usage) + 1
                        /\ ai_token_usage'[Len(ai_token_usage')].family_id = f
             released == ai_limits'[f].current_month_cost_usd
                           < ai_limits[f].current_month_cost_usd
         IN  settled # released]_vars

\* C27: pessimistic charge at admission.  While an admitted call is in
\* flight, the accrued cost of its family is above what it was when the call
\* was admitted: it already includes a charge for the call.
C27_ChargedAtAdmission ==
  \A w \in Workers :
    (InFlight(w) /\ run[w].checked) =>
      ai_limits[run[w].family_id].current_month_cost_usd
        > run[w].before.current_month_cost_usd

\* C24: append-only ledger.  No step modifies or deletes a usage row that is
\* written: every row of the table stays as it is, at its place, and the
\* number of rows of every family only grows.
C24_AppendOnly ==
  [][/\ Len(ai_token_usage') >= Len(ai_token_usage)
     /\ \A i \in 1..Len(ai_token_usage) : ai_token_usage'[i] = ai_token_usage[i]]_vars

\* A limit change, a failed commit and a further call have all happened
\* after a usage row was written.
C24_Witness ==
  /\ Len(ai_token_usage) >= 2
  /\ \E f \in DOMAIN ai_limits : ai_limits[f].monthly_token_limit \in TokenLimitInputs
  /\ \E i \in 1..Len(calls) : calls[i] = "commit_error" /\ i > 1 /\ calls[1] = "returned"

\* The usage rows of family f, in order.
RecordsOf(table, f) == SelectSeq(table, LAMBDA r : r.family_id = f)

\* This step leaves the FamilyAiLimit row and the usage rows of family f as
\* they are.
SameTenant(f) ==
  /\ ai_limits' = ai_limits \/ QueryLimit(ai_limits', f) = QueryLimit(ai_limits, f)
  /\ ai_token_usage' = ai_token_usage
       \/ RecordsOf(ai_token_usage', f) = RecordsOf(ai_token_usage, f)

\* C25: tenant partitioning.  A step of a call made for family A (its check,
\* its recording) leaves the FamilyAiLimit row and the usage rows of every
\* other family unchanged; no step at all (a limit change included) changes
\* the rows of two families; and when a call is started, the admission
\* decision for A is the one the check takes on a table that holds A's row
\* alone.
C25_TenantPartition ==
  [][/\ \A w \in Workers :
          (run'[w] # run[w]) =>
             LET A == IF run[w].pc = "idle" THEN run'[w].family_id ELSE run[w].family_id
             IN  \A B \in AllFamilies \ {A} : SameTenant(B)
     /\ \A A \in AllFamilies : \A B \in AllFamilies \ {A} : SameTenant(A) \/ SameTenant(B)
     /\ (Len(calls') > Len(calls)) =>
          \A A \in DOMAIN ai_limits :
            _check_token_limit(ai_limits, TRUE, A)
              = _check_token_limit((A :> ai_limits[A]), TRUE, A)]_vars

\* Two families have rows with different accrued cost, each has usage rows,
\* and a call of one of them has been denied.
C25_Witness ==
  /\ \E A \in DOMAIN ai_limits, B \in DOMAIN ai_limits :
       /\ A # B
       /\ ai_limits[A].current_month_cost_usd > 0
       /\ ai_limits[B].current_month_cost_usd > ai_limits[A].current_month_cost_usd
       /\ RecordsOf(ai_token_usage, A) # <<>>
       /\ RecordsOf(ai_token_usage, B) # <<>>

\* C28: record and counters commit together.  When the commit of
\* _log_token_usage ends for a family whose row the session read, either it
\* succeeded and the usage row and both increments (tokens and cost, added
\* to the counters the session read) are all in the tables, or it failed and
\* none of them is.
C28_CommitTogether ==
  [][\A w \in Workers :
       (run[w].pc = "commit" /\ run[w].ai_limit.present /\ run'[w].pc = "idle") =>
         LET f == run[w].family_id
             record == Len(ai_token_usage') = Len(ai_token_usage) + 1
             tokens == ai_limits'[f].current_month_usage
                         = run[w].ai_limit.current_month_usage + run[w].usage.total_tokens
             cost == ai_limits'[f].current_month_cost_usd
                       = run[w].ai_limit.current_month_cost_usd + run[w].cost
         IN  \/ record /\ tokens /\ cost
             \/ /\ ai_token_usage' = ai_token_usage
                /\ ai_limits' = ai_limits]_vars

\* A commit has succeeded and a commit has failed for a family with a row.
C28_Witness ==
  /\ \E i \in 1..Len(calls) : calls[i] = "commit_error"
  /\ \E f \in DOMAIN ai_limits :
       /\ ai_limits[f].current_month_cost_usd > 0
       /\ RecordsOf(ai_token_usage, f) # <<>>

\* No family without a row is denied by the check.
RowlessAdmitted ==
  \A f \in families \ DOMAIN ai_limits : ~ _check_token_limit(ai_limits, TRUE, f).raised

\* C30: tenant without a quota row.  For a family that has no FamilyAiLimit
\* row the check admits every call; the recording of its call writes the
\* usage row, creates no FamilyAiLimit row and changes no counter of any
\* family; and a FamilyAiLimit row comes into existence only in a step of
\* register_family, login_with_google or update_family_ai_limits.
C30_TenantWithoutRow ==
  [][/\ RowlessAdmitted
     /\ \A w \in Workers :
          (/\ run[w].pc = "idle" /\ run'[w] # run[w]
           /\ run'[w].family_id \in families \ DOMAIN ai_limits)
          => run'[w].pc = "create" /\ ~run'[w].checked
     /\ \A w \in Workers :
          (/\ run[w].pc = "commit" /\ run[w].family_id \notin DOMAIN ai_limits
           /\ run'[w].pc = "idle" /\ calls'[run[w].id] = "returned")
          => /\ ai_limits' = ai_limits
             /\ ai_token_usage' =
                  Append(ai_token_usage,
                         [family_id |-> run[w].family_id,
                          total_tokens |-> run[w].usage.total_tokens,
                          cost_usd |-> run[w].cost,
                          created_at |-> today])
     /\ (DOMAIN ai_limits' # DOMAIN ai_limits) =>
          \/ register_family
          \/ \E cents \in CostLimitCents : login_with_google(cents)
          \/ \E f \in AllFamilies, l \in TokenLimitInputs : update_family_ai_limits(f, l)]_vars

\* A call of a family without a row has been recorded and the family still
\* has no row, while another family has one.
C30_Witness ==
  /\ DOMAIN ai_limits # {}
  /\ \E f \in families \ DOMAIN ai_limits : RecordsOf(ai_token_usage, f) # <<>>

C26_ReportReadOnly ==
  [][(report' # report /\ report' # NoReport) =>
        /\ families' = families
        /\ ai_limits' = ai_limits
        /\ ai_token_usage' = ai_token_usage
        /\ run' = run
        /\ report'.endpoint = "get_family_usage" =>
             report'.total_cost = SumCost(ai_token_usage, report'.family_id)]_vars

\* C26, amended: as above, the total cost of the usage summary being the sum
\* of cost_usd over the usage rows of the family (those written, of every
\* month; no call in flight counts) rounded to four fractional digits.
C26_ReportReadOnlyRounded ==
  [][(report' # report /\ report' # NoReport) =>
        /\ families' = families
        /\ ai_limits' = ai_limits
        /\ ai_token_usage' = ai_token_usage
        /\ run' = run
        /\ report'.endpoint = "get_family_usage" =>
             report'.total_cost = RoundTo(SumCost(ai_token_usage, report'.family_id), 100)]_vars

\* The usage summary of a family is answered whose rows sum to a cost that
\* is not a multiple of 0.0001, while another family has usage rows and a
\* call with a cost is about to commit.
C26_Witness ==
  /\ report.endpoint = "get_family_usage"
  /\ report.total_cost # SumCost(ai_token_usage, report.family_id)
  /\ \E f \in families \ {report.family_id} : RecordsOf(ai_token_usage, f) # <<>>
  /\ run[1].pc = "commit"
  /\ run[1].cost > 0

====
